---- MODULE Spec2Model ----
(***************************************************************************)
(* Model of quiz-generator.py: the per-session daily question quota, the   *)
(* provider call and its response parsing, the countdown/submit flow of    *)
(* conduct_quiz under the framework's rerun-on-interaction rule, and the   *)
(* scoring loop.                                                           *)
(*                                                                         *)
(* Scores are kept in hundredths (2 -> 200, 0.66 -> 66); the rounding of   *)
(* the source's binary floating point is below that granularity and is not *)
(* modelled.                                                               *)
(***************************************************************************)
EXTENDS Integers, Sequences, FiniteSets, TLC

\* ---------------------------------------------------------------- bounds
\* Clock readings distinguished within one calendar day.
TicksPerDay == 2
\* Last calendar day the clock reaches.
MaxDay == 1
\* Slider values explored: SliderMin * 1 .. SliderMin * NumSizes.
NumSizes == 2
\* Questions the provider may return beyond the requested number.
ExtraQuestions == 1
\* Highest option index (0-based) a radio selection takes.
MaxChoice == 1
\* Longest question list of the stand-alone scoring runs.
MaxLen == 3

\* ------------------------------------------------------ program constants
DailyLimit == 300
SliderMin == 10
SliderMax == 50
SecondsPerQuestion == 15
HttpOk == 200
CorrectMarks == 200
WrongMarks == 66
TimeUpPause == 2

VARIABLES
    question_count,  \* st.session_state["question_count"]
    last_reset,      \* st.session_state["last_reset"], a calendar date
    submitted,       \* st.session_state["submitted"]
    now,             \* the wall clock read by datetime.now()
    pc,              \* position of the running script ("idle": no run)
    trigger,         \* the interaction that caused the current/latest run
    num_questions,   \* the slider value of the latest Start run / call
    resp,            \* history: the provider's response in the current run
    questions,       \* the value generate_questions returned
    http,            \* HTTP requests issued by the latest call
    raised,          \* the latest call / run ended in an uncaught exception
    responses,       \* responses[i]: value of the radio of question i
    submit_clicked,  \* local submit_clicked of conduct_quiz
    elapsed,         \* time.time() - start_time, in seconds
    total_time,      \* end_time - start_time, in seconds
    score,           \* the final score, in hundredths
    shown,           \* what the page shows for the latest run
    attempt,         \* history: fate of the quiz attempt on the page
    last_op          \* history: the operation the latest step performed

vars == <<question_count, last_reset, submitted, now, pc, trigger,
          num_questions, resp, questions, http, raised, responses,
          submit_clicked, elapsed, total_time, score, shown, attempt,
          last_op>>

\* ---------------------------------------------------------------- values
\* datetime.now().strftime("%Y-%m-%d"): the calendar date of a clock
\* reading; the time of day is dropped.
Date(t) == t \div TicksPerDay

MaxNow == (MaxDay + 1) * TicksPerDay - 1

\* Python values as the code distinguishes them: lists (with their items),
\* and everything else by its truthiness.
EmptyList == [t |-> "list", items |-> <<>>, nonzero |-> FALSE]
PyList(items) == [t |-> "list", items |-> items, nonzero |-> items # <<>>]
PyOther(tag, nz) == [t |-> tag, items |-> <<>>, nonzero |-> nz]

\* bool(v)
Truthy(v) == IF v.t = "list" THEN v.items # <<>> ELSE v.nonzero

\* chr(65 + i)
Chr65(i) == <<"A", "B", "C", "D", "E", "F">>[i + 1]

\* f"{chr(65 + i)}. {option}": the letter, ". ", and the option's text
OptionLabel(i, option) == <<Chr65(i), ". ", option>>

\* The radio of a question returns None until an option is selected.
None == <<>>

\* One well-formed MCQ: four options, one answer letter.
Question(a) ==
    [ok |-> TRUE,
     options |-> <<"w", "x", "y", "z">>,
     answer |-> a]
\* A list item that is not a dict with the question/options/answer keys.
BadItem == [ok |-> FALSE, options |-> <<>>, answer |-> ""]

MCQList(len, a) == PyList([i \in 1..len |-> Question(a)])

\* ------------------------------------------------------ provider responses
\* A provider outcome, by exactly the properties the code tests:
\*   exc     requests.post raised a RequestException
\*   status  response.status_code
\*   body    class of response.json(): "nonjson" (json() raises), "falsy"
\*           (None, {}, [], 0, ""), "scalar" (truthy, neither list nor
\*           dict), "list" (non-empty), "dict" (non-empty)
\*   decode  for "nonjson": the exception class json() raises, which
\*           depends on the installed requests release
\*   first   for "list": whether response_json[0] is a dict
\*   gt      the value under "generated_text": "missing", "falsy" ("" or
\*           null), "nonstr" (truthy, not a string), "str" (non-empty text)
\*   valid   for "str": json.loads accepts the text
\*   parsed  for valid text: the value json.loads returns
Response(exc, status, body, decode, first, gt, valid, parsed) ==
    [exc |-> exc, status |-> status, body |-> body, decode |-> decode,
     first |-> first, gt |-> gt, valid |-> valid, parsed |-> parsed]

NoResponse == Response(FALSE, 0, "none", "", "", "", FALSE, EmptyList)

\* Texts that decode: an empty list, an empty and a non-empty object, a list
\* whose items are not MCQ dicts, and MCQ lists of the requested length and
\* longer.
ParsedValues(n) ==
    {EmptyList, PyOther("dict", FALSE), PyOther("dict", TRUE),
     PyList(<<BadItem>>)}
    \cup {MCQList(n, "A"), MCQList(n + ExtraQuestions, "A")}

Containers(n) ==
    {Response(FALSE, HttpOk, b, "", "dict", g, FALSE, EmptyList) :
        b \in {"list", "dict"}, g \in {"missing", "falsy", "nonstr", "str"}}
    \cup {Response(FALSE, HttpOk, b, "", "dict", "str", TRUE, v) :
        b \in {"list", "dict"}, v \in ParsedValues(n)}

OutcomesFor(n) ==
    {Response(TRUE, 0, "none", "", "", "", FALSE, EmptyList),
     Response(FALSE, 503, "none", "", "", "", FALSE, EmptyList),
     Response(FALSE, HttpOk, "nonjson", "RequestException", "", "", FALSE, EmptyList),
     Response(FALSE, HttpOk, "nonjson", "ValueError", "", "", FALSE, EmptyList),
     Response(FALSE, HttpOk, "falsy", "", "", "", FALSE, EmptyList),
     Response(FALSE, HttpOk, "scalar", "", "", "", FALSE, EmptyList),
     Response(FALSE, HttpOk, "list", "", "other", "", FALSE, EmptyList)}
    \cup Containers(n)

\* The outcomes a call asking for n questions may meet.
ProviderOutcomes == [n \in SliderMin..SliderMax |-> OutcomesFor(n)]

\* The provider returned what the prompt asks for: a JSON list of MCQs.
WellFormed(r) ==
    /\ ~r.exc /\ r.status = HttpOk
    /\ r.body \in {"list", "dict"} /\ r.first = "dict"
    /\ r.gt = "str" /\ r.valid
    /\ r.parsed.t = "list" /\ r.parsed.items # <<>>
    /\ \A i \in 1..Len(r.parsed.items) : r.parsed.items[i].ok

\* ------------------------------------------------------------ the quota
\* line 24: st.session_state["last_reset"] != current_date
NeedsReset_always(lr, t) == TRUE
NeedsReset(lr, t) == lr # Date(t)

\* lines 24-25: the counter after reset_question_limit()
ResetCount_keep(c, lr, t) == c
ResetCount(c, lr, t) == IF NeedsReset(lr, t) THEN 0 ELSE c

\* lines 24, 26: the stored date after reset_question_limit()
ResetDate(lr, t) == IF NeedsReset(lr, t) THEN Date(t) ELSE lr

\* line 31: question_count + num_questions > 300
OverQuota_ignores_request(c, n) == c > DailyLimit
OverQuota(c, n) == c + n > DailyLimit

\* line 41: the single requests.post of a call that passed the quota check
RequestsIssued_retry(r) == IF r.exc \/ r.status # HttpOk THEN 2 ELSE 1
RequestsIssued(r) == 1

\* lines 28-72. The result: the session counter and date after the call, the
\* returned value, the requests issued, and whether the call raised.
generate_questions(c, lr, t, n, r) ==
    LET c0 == ResetCount(c, lr, t)
        lr0 == ResetDate(lr, t)
        out(cnt, ret, h, exn) ==
            [count |-> cnt, last_reset |-> lr0, ret |-> ret, http |-> h,
             raised |-> exn]
        h == RequestsIssued(r)
    IN  IF OverQuota(c0, n) THEN out(c0, EmptyList, 0, FALSE)    \* 31-33
        ELSE IF r.exc THEN out(c0, EmptyList, h, FALSE)          \* 70-72
        ELSE IF r.status # HttpOk THEN out(c0, EmptyList, h, FALSE) \* 42-44
        ELSE IF r.body = "nonjson"                               \* 46
            THEN out(c0, EmptyList, h, r.decode # "RequestException")
        ELSE IF r.body = "falsy" THEN out(c0, EmptyList, h, FALSE)  \* 47-49
        ELSE IF r.body = "list" /\ r.first # "dict"              \* 52
            THEN out(c0, EmptyList, h, TRUE)
        ELSE IF r.body \notin {"list", "dict"}                   \* 55-57
            THEN out(c0, EmptyList, h, FALSE)
        ELSE IF r.gt \in {"missing", "falsy"}                    \* 59, 67-69
            THEN out(c0, EmptyList, h, FALSE)
        ELSE IF r.gt = "nonstr" THEN out(c0, EmptyList, h, TRUE) \* 61
        ELSE IF ~r.valid THEN out(c0, EmptyList, h, FALSE)       \* 64-66
        ELSE out(c0 + n, r.parsed, h, FALSE)                     \* 61-63

\* ------------------------------------------------------------ scoring
\* lines 133-151: the scoring loop from question i on, acc the score so far
RECURSIVE ScoreFrom(_, _, _, _)
ScoreFrom(qs, rs, i, acc) ==
    IF i > Len(qs) THEN acc
    ELSE LET answer == rs[i]
             correct_option == qs[i].answer
         IN  ScoreFrom(qs, rs, i + 1,
                 IF answer # None
                 THEN IF answer[1] = correct_option
                      THEN acc + CorrectMarks
                      ELSE acc - WrongMarks
                 ELSE acc)

FinalScore_unanswered_penalised(qs, rs) ==
    ScoreFrom(qs, [i \in 1..Len(qs) |-> IF rs[i] = None THEN <<"?">> ELSE rs[i]], 1, 0)
FinalScore(qs, rs) == ScoreFrom(qs, rs, 1, 0)

\* line 153: the denominator shown beside the score
DisplayedMax(n) == n * CorrectMarks

\* --------------------------------------------------------- initial state
\* lines 16-19: a fresh session; the script has not run yet.
Init ==
    /\ question_count = 0
    /\ last_reset = Date(0)
    /\ submitted = FALSE
    /\ now = 0
    /\ pc = "idle"
    /\ trigger = "none"
    /\ num_questions = SliderMin
    /\ resp = NoResponse
    /\ questions = EmptyList
    /\ http = 0
    /\ raised = FALSE
    /\ responses = <<>>
    /\ submit_clicked = FALSE
    /\ elapsed = 0
    /\ total_time = 0
    /\ score = 0
    /\ shown = "none"
    /\ attempt = "none"
    /\ last_op = "none"

\* Slider values explored by the quiz flow and by the quota harness.
QuizSizes == {SliderMin * k : k \in 1..NumSizes} \cap SliderMin..SliderMax
QuotaSizes == QuizSizes \cup {SliderMax}

quizVars == <<submitted, pc, trigger, responses, submit_clicked, elapsed,
              total_time, score, shown, attempt>>

\* ------------------------------------------------- the quota, called alone
\* The clock advances; crossing midnight changes the calendar date.
ClockTick ==
    /\ now < MaxNow
    /\ now' = now + 1
    /\ last_op' = "tick"
    /\ UNCHANGED <<question_count, last_reset, num_questions, resp,
                   questions, http, raised>>
    /\ UNCHANGED quizVars

\* lines 21-26: one call of reset_question_limit()
CallReset ==
    /\ question_count' = ResetCount(question_count, last_reset, now)
    /\ last_reset' = ResetDate(last_reset, now)
    /\ last_op' = "reset"
    /\ UNCHANGED <<now, num_questions, resp, questions, http, raised>>
    /\ UNCHANGED quizVars

\* lines 28-72: one call of generate_questions(topic, n)
CallGenerate ==
    \E n \in QuotaSizes : \E r \in ProviderOutcomes[n] :
        LET g == generate_questions(question_count, last_reset, now, n, r)
        IN  /\ question_count' = g.count
            /\ last_reset' = g.last_reset
            /\ questions' = g.ret
            /\ http' = g.http
            /\ raised' = g.raised
            /\ num_questions' = n
            /\ last_op' = "generate"
            /\ UNCHANGED <<now, resp>>
            /\ UNCHANGED quizVars

NextQuota == ClockTick \/ CallReset \/ CallGenerate

SpecQuota == Init /\ [][NextQuota]_vars

\* ------------------------------------------------------ the quiz page flow
\* The framework re-executes the whole script on every interaction, and a
\* button reads True only in the run its own click triggered.  A running
\* script is stopped at its next framework call (line 121, once per loop
\* iteration) when the user interacts; its locals are discarded.
\* trigger names the interaction that started the run: "start" and "submit"
\* are the two buttons, "answer" a radio selection, "other" an edit of the
\* name, the topic or the slider.  Submit and the radios are on the page
\* only while an attempt is being rendered.
callVars == <<question_count, last_reset, now, last_op>>

Interact ==
    /\ \/ pc = "idle"
       \/ pc = "loop" /\ elapsed < total_time /\ ~submitted
    /\ \E tr \in (IF pc = "loop" THEN {"start", "other", "submit", "answer"}
                  ELSE {"start", "other"}) : trigger' = tr
    /\ attempt' = IF attempt = "running" THEN "dropped" ELSE "none"
    /\ pc' = "head"
    /\ resp' = NoResponse
    /\ questions' = EmptyList
    /\ responses' = <<>>
    /\ http' = 0
    /\ raised' = FALSE
    /\ submit_clicked' = FALSE
    /\ elapsed' = 0
    /\ total_time' = 0
    /\ score' = 0
    /\ shown' = "none"
    /\ UNCHANGED <<num_questions, submitted>>
    /\ UNCHANGED callVars

\* The clock advances.  The date is read only at lines 85 and 30, so a tick
\* during the countdown is seen no earlier than a tick right after it.
TimePasses ==
    /\ pc \in {"idle", "head", "generate"}
    /\ now < MaxNow
    /\ now' = now + 1
    /\ UNCHANGED <<question_count, last_reset, last_op, num_questions, resp,
                   questions, http, raised>>
    /\ UNCHANGED quizVars

\* lines 76-88: the head of conduct_quiz; name and topic are filled in, so
\* line 88 is decided by the Start Quiz button.
RunHead ==
    /\ pc = "head"
    /\ question_count' = ResetCount(question_count, last_reset, now)
    /\ last_reset' = ResetDate(last_reset, now)
    /\ IF trigger = "start"
       THEN /\ \E n \in QuizSizes : num_questions' = n
            /\ pc' = "generate"
       ELSE /\ pc' = "idle"
            /\ UNCHANGED num_questions
    /\ UNCHANGED <<submitted, now, trigger, resp, questions, http, raised,
                   responses, submit_clicked, elapsed, total_time, score,
                   shown, attempt, last_op>>

\* line 89: questions = generate_questions(topic, num_questions)
GenerateQuestions ==
    /\ pc = "generate"
    /\ \E r \in ProviderOutcomes[num_questions] :
        LET g == generate_questions(question_count, last_reset, now,
                                    num_questions, r)
        IN  /\ question_count' = g.count
            /\ last_reset' = g.last_reset
            /\ questions' = g.ret
            /\ http' = g.http
            /\ raised' = g.raised
            /\ resp' = IF g.http = 0 THEN NoResponse ELSE r
            /\ pc' = IF g.raised THEN "idle" ELSE "returned"
            /\ shown' = IF g.raised THEN "exception" ELSE shown
    /\ UNCHANGED <<submitted, now, trigger, num_questions, responses,
                   submit_clicked, elapsed, total_time, score, attempt,
                   last_op>>

\* lines 90-92: nothing to ask; warn and return
NoQuestions ==
    /\ pc = "returned"
    /\ ~Truthy(questions)
    /\ shown' = "warning"
    /\ pc' = "idle"
    /\ UNCHANGED <<submitted, trigger, num_questions, resp, questions, http,
                   raised, responses, submit_clicked, elapsed, total_time,
                   score, attempt>>
    /\ UNCHANGED callVars

\* lines 104-113 need a list whose items carry the question/options keys.
Renderable(qs) ==
    qs.t = "list" /\ \A i \in 1..Len(qs.items) : qs.items[i].ok

\* lines 107-113: the values the radios return.  The framework supplies the
\* selection it holds for each key (one that reached it together with the
\* Start click), None where it holds none.  The first k questions carry a
\* selection of option c.
RadioValues(qs, k, c) ==
    [i \in 1..Len(qs.items) |->
        IF i <= k THEN OptionLabel(c, qs.items[i].options[c + 1]) ELSE None]

\* lines 94-116: start the timer, render the questions and the Submit
\* button.  The button reads True only if its click reached the framework
\* together with the Start click that triggered this run.
RenderQuiz ==
    /\ pc = "returned"
    /\ Truthy(questions)
    /\ submitted' = FALSE
    /\ IF Renderable(questions)
       THEN /\ total_time' = num_questions * SecondsPerQuestion
            /\ elapsed' = 0
            /\ \E k \in {0, Len(questions.items)} : \E c \in 0..MaxChoice :
                   responses' = RadioValues(questions, k, c)
            /\ submit_clicked' \in BOOLEAN
            /\ shown' = "quiz"
            /\ attempt' = "running"
            /\ pc' = "loop"
            /\ resp' = NoResponse
            /\ UNCHANGED raised
       ELSE /\ raised' = TRUE
            /\ shown' = "exception"
            /\ pc' = "idle"
            /\ UNCHANGED <<total_time, elapsed, responses, submit_clicked,
                           attempt, resp>>
    /\ UNCHANGED <<trigger, num_questions, questions, http, score>>
    /\ UNCHANGED callVars

\* lines 118-125: one iteration of the countdown loop
CountdownIteration ==
    /\ pc = "loop"
    /\ elapsed < total_time /\ ~submitted
    /\ elapsed' = elapsed + 1
    /\ IF submit_clicked
       THEN submitted' = TRUE /\ pc' = "after"
       ELSE UNCHANGED <<submitted, pc>>
    /\ UNCHANGED <<trigger, num_questions, resp, questions, http, raised,
                   responses, submit_clicked, total_time, score, shown,
                   attempt>>
    /\ UNCHANGED callVars

\* line 118: the loop condition fails
CountdownExit ==
    /\ pc = "loop"
    /\ ~(elapsed < total_time /\ ~submitted)
    /\ pc' = "after"
    /\ UNCHANGED <<submitted, trigger, num_questions, resp, questions, http,
                   raised, responses, submit_clicked, elapsed, total_time,
                   score, shown, attempt>>
    /\ UNCHANGED callVars

\* lines 127-130: auto-submit at the deadline
TimeUp ==
    /\ pc = "after"
    /\ IF elapsed >= total_time /\ ~submitted
       THEN submitted' = TRUE /\ elapsed' = elapsed + TimeUpPause
       ELSE UNCHANGED <<submitted, elapsed>>
    /\ pc' = "score"
    /\ UNCHANGED <<trigger, num_questions, resp, questions, http, raised,
                   responses, submit_clicked, total_time, score, shown,
                   attempt>>
    /\ UNCHANGED callVars

\* lines 132-153: score the attempt and show the result
ScoreQuiz ==
    /\ pc = "score"
    /\ IF submitted
       THEN /\ score' = FinalScore(questions.items, responses)
            /\ shown' = "results"
            /\ attempt' = "scored"
       ELSE UNCHANGED <<score, shown, attempt>>
    /\ pc' = "idle"
    /\ UNCHANGED <<submitted, trigger, num_questions, resp, questions, http,
                   raised, responses, submit_clicked, elapsed, total_time>>
    /\ UNCHANGED callVars

Next ==
    \/ Interact
    \/ TimePasses
    \/ RunHead
    \/ GenerateQuestions
    \/ NoQuestions
    \/ RenderQuiz
    \/ CountdownIteration
    \/ CountdownExit
    \/ TimeUp
    \/ ScoreQuiz

Spec == Init /\ [][Next]_vars

\* ------------------------------------------------- the scoring loop alone
\* An attempt about to be scored (line 132, submitted by the timeout): the
\* provider's list holds 1..MaxLen questions with any answer letters, and
\* every radio holds None or one of its options.
AnswerLetters == {Chr65(i) : i \in 0..MaxChoice}

QuestionLists ==
    UNION {[1..len -> {Question(a) : a \in AnswerLetters}] : len \in 1..MaxLen}

RadioChoices(q) ==
    {None} \cup {OptionLabel(i, q.options[i + 1]) : i \in 0..MaxChoice}

InitScore ==
    /\ question_count = SliderMin
    /\ last_reset = Date(0)
    /\ submitted = TRUE
    /\ now = 0
    /\ pc = "score"
    /\ trigger = "start"
    /\ num_questions = SliderMin
    /\ resp = NoResponse
    /\ \E qs \in QuestionLists :
        /\ questions = PyList(qs)
        /\ responses \in [1..Len(qs) -> UNION {RadioChoices(qs[i]) : i \in 1..Len(qs)}]
    /\ http = 1
    /\ raised = FALSE
    /\ submit_clicked = FALSE
    /\ total_time = SliderMin * SecondsPerQuestion
    /\ elapsed = SliderMin * SecondsPerQuestion + TimeUpPause
    /\ score = 0
    /\ shown = "quiz"
    /\ attempt = "running"
    /\ last_op = "none"

SpecScore == InitScore /\ [][ScoreQuiz]_vars

\* ------------------------------------------------------------- properties
\* The counter as the reset check at the head of a call leaves it.
CountAfterResetCheck == IF last_reset # Date(now) THEN 0 ELSE question_count

\* C1: the counter stays within 0..300 in every state reached by calls of
\* generate_questions and date changes; every call that returns questions
\* adds exactly num_questions to the counter, and the counter never falls
\* unless the date is reset, so the num_questions granted between two resets
\* sum to at most the counter, hence to at most 300.
C1_QuotaCeiling ==
    /\ [](0 <= question_count /\ question_count <= DailyLimit)
    /\ [][(last_op' = "generate" /\ Truthy(questions'))
            => question_count' = CountAfterResetCheck + num_questions']_vars
    /\ [][last_reset' = last_reset => question_count' >= question_count]_vars

\* C1 witness: the counter stands at the ceiling and a further call has been
\* refused without a request.
C1_Witness ==
    /\ last_op = "generate" /\ question_count = DailyLimit
    /\ http = 0 /\ questions = EmptyList

\* C2: a call of reset_question_limit zeroes the counter and stores today's
\* date exactly when the stored date differs from today's; once the stored
\* date is today's, no operation on that date changes it again, and a reset
\* call on that date leaves the counter alone.
C2_ResetOncePerDay ==
    /\ [][last_op' = "reset" =>
            IF last_reset # Date(now)
            THEN question_count' = 0 /\ last_reset' = Date(now)
            ELSE UNCHANGED <<question_count, last_reset>>]_vars
    /\ [][(last_reset = Date(now) /\ Date(now') = Date(now))
            => last_reset' = last_reset]_vars

\* C2 witness: questions were granted on an earlier date, and a reset call
\* after the date change has zeroed the counter.
C2_Witness ==
    /\ last_op = "reset" /\ Truthy(questions)
    /\ question_count = 0 /\ last_reset = Date(now) /\ last_reset # Date(0)

\* C3: the final score is 2 per question whose selected letter is the answer
\* letter, minus 0.66 per question answered with another letter, and
\* unanswered questions count nothing (in hundredths).
Correct(qs, rs) == {i \in 1..Len(qs) : rs[i] # None /\ rs[i][1] = qs[i].answer}
Wrong(qs, rs) == {i \in 1..Len(qs) : rs[i] # None /\ rs[i][1] # qs[i].answer}

C3_ScoreSum ==
    shown = "results" =>
        score = 200 * Cardinality(Correct(questions.items, responses))
                - 66 * Cardinality(Wrong(questions.items, responses))

\* C3 witness: a scored attempt with one correct, one wrong and one
\* unanswered question.
C3_Witness ==
    /\ shown = "results" /\ Len(questions.items) = 3
    /\ Cardinality(Correct(questions.items, responses)) = 1
    /\ Cardinality(Wrong(questions.items, responses)) = 1
    /\ score = 134

\* C4: a provider outcome that is not a well-formed MCQ list never raises and
\* yields an empty question list, and the page then shows the warning
\* instead of a quiz.
C4_MalformedYieldsEmpty ==
    (resp # NoResponse /\ ~WellFormed(resp)) =>
        /\ ~raised
        /\ questions = EmptyList
        /\ pc = "idle" => shown = "warning"

\* C5: an attempt that was started and whose Submit button is never clicked
\* runs to its deadline, is submitted by the timeout there and not before,
\* and is scored.
C5_AutoSubmit ==
    /\ attempt = "dropped" => trigger = "submit"
    /\ (attempt = "scored" /\ ~submit_clicked)
            => submitted /\ elapsed = total_time + TimeUpPause

\* C6: a click on Submit Quiz before the deadline of a started attempt sets
\* submitted and leads to the scoring of that attempt.
C6_SubmitClickScores ==
    (trigger = "submit" /\ pc = "idle") =>
        submitted /\ shown = "results" /\ attempt = "scored"

\* C7: a call issues at most one HTTP request whatever the outcome, none
\* exactly when the counter after the reset check plus num_questions exceeds
\* 300, hence one when the sum is exactly 300.
C7_AtMostOneRequest ==
    [][last_op' = "generate" =>
        /\ http' <= 1
        /\ http' = 0 <=> CountAfterResetCheck + num_questions' > DailyLimit]_vars

\* C7 witness: a call at question_count + num_questions = 300 issued its
\* request and was granted.
C7_Witness ==
    /\ last_op = "generate" /\ http = 1
    /\ Truthy(questions) /\ question_count = DailyLimit

\* C8: a call rejected by the quota check on the current date returns [] and
\* leaves counter and date unchanged; the first call after a date change is
\* evaluated against a counter of 0.
C8_RejectedCallFrame ==
    /\ [][(/\ last_op' = "generate"
           /\ last_reset = Date(now)
           /\ question_count + num_questions' > DailyLimit)
            => /\ questions' = EmptyList
               /\ ~raised'
               /\ UNCHANGED <<question_count, last_reset>>]_vars
    /\ [][(last_op' = "generate" /\ last_reset # Date(now))
            => /\ http' = 1
               /\ question_count' \in {0, num_questions'}
               /\ last_reset' = Date(now)]_vars

\* C8 witness: a call was rejected while quota remained.
C8_Witness ==
    /\ last_op = "generate" /\ http = 0 /\ questions = EmptyList
    /\ question_count < DailyLimit
    /\ question_count + num_questions > DailyLimit

\* C9: a call that returns an empty (falsy) result leaves the counter as the
\* reset check left it; the counter grows by num_questions exactly in the
\* calls that return a non-empty question list.
C9_QuotaOnlyOnSuccess ==
    [][last_op' = "generate" =>
        /\ ~Truthy(questions') => question_count' = CountAfterResetCheck
        /\ question_count' = CountAfterResetCheck + num_questions'
            <=> (questions'.t = "list" /\ Truthy(questions'))]_vars

\* C10: the final score of a scored attempt lies within the displayed range,
\* -0.66 * num_questions .. 2 * num_questions (in hundredths).
C10_ScoreInDisplayedRange ==
    shown = "results" =>
        /\ - WrongMarks * num_questions <= score
        /\ score <= DisplayedMax(num_questions)

====
